---- MODULE Spec2Model ----
(***************************************************************************)
(* Model of scripts/file_lock.py (FileLock, file_lock) and of              *)
(* scripts/utils.py get_logger.                                            *)
(*                                                                         *)
(* FileLock wraps zc.lockfile.LockFile: the constructor opens the path,    *)
(* takes a non-blocking exclusive OS lock on the open file, and writes the *)
(* content template; LockError is raised when the OS lock is taken.        *)
(* LockFile.close() unlocks and closes the file once and is a no-op after. *)
(* The file system calls of acquire_lock may fail: the open inside         *)
(* LockFile() (before anything is locked) and the read-back open on line   *)
(* 62 (after self.lock is bound).                                          *)
(*                                                                         *)
(* Release of a FileLock that nobody released by hand happens in           *)
(* FileLock.__del__.  Python runs a finalizer when the runtime reclaims    *)
(* the object: at once under reference counting, at some later moment      *)
(* otherwise.  Both outcomes are modelled (parameter prompt).              *)
(***************************************************************************)
EXTENDS Integers, FiniteSets, Sequences, TLC

\* ---------------------------------------------------------------- bounds
MaxObjs == 2
MaxHandles == 2
NumProcs == 2
MaxLogHandlers == 2
MaxRotateSize == 2

Objs == 1..MaxObjs
Handles == 1..MaxHandles
Procs == 1..NumProcs
Paths == {"p1", "p2"}
None == 0

\* the process an object lives in, its pid and its host name
ProcOf(o) == ((o - 1) % NumProcs) + 1
Pid(pr) == 100 + pr
Hostname(pr) == "host"

\* outcomes of the file system calls made during one acquire_lock
IOOutcomes == {"ok", "open_fail", "readback_fail"}
ExitPaths == {"normal", "early", "error"}
LoggerNames == {"a", "b"}

VARIABLES
  objState,   \* FileLock object: "absent", "alive", "dropped" (unreferenced, not finalized), "finalized"
  lock,       \* self.lock of each FileLock: None or a LockFile handle
  hfp,        \* LockFile._fp of each handle: "unused", "open" (open and locked), "closed"
  hpath,      \* the path a handle was created for
  content,    \* lock file content per path: <<>> when the file is missing or empty
  flock,      \* OS lock table: the handle whose open file holds the exclusive lock, or None
  scope,      \* position of the file_lock generator of an object: "none", "body", "exited"
  yielded,    \* the value file_lock yielded into the body
  ret,        \* the most recent call: the object, the method, what it returned or raised
  logLevel,   \* level of each named logger
  logHandlers,\* handlers attached to each named logger
  logCall     \* the last get_logger call and its result

lockVars == <<objState, lock, hfp, hpath, content, flock, scope, yielded, ret>>
logVars == <<logLevel, logHandlers, logCall>>
vars == <<objState, lock, hfp, hpath, content, flock, scope, yielded, ret,
          logLevel, logHandlers, logCall>>

NoCall == [obj |-> None, op |-> "none", kind |-> "none"]
NoYield == [kind |-> "none", h |-> None]

\* ---------------------------------------------------------------- helpers
\* a bug: the library's default template '{pid}'
ContentTemplate_pid_only(pr) == <<Pid(pr)>>

\* content_template='{pid}@{hostname}' filled in for the calling process
ContentTemplate(pr) == <<Pid(pr), "@", Hostname(pr)>>

\* LockFile handle is open and owns the OS lock
Live(h) == h # None /\ hfp[h] = "open"

\* the FileLock object holds path p
HeldOn(o, p) == objState[o] \in {"alive", "dropped"} /\ Live(lock[o]) /\ hpath[lock[o]] = p
Held(o) == \E p \in Paths : HeldOn(o, p)
Released(o) == lock[o] # None /\ hfp[lock[o]] = "closed"

FreshHandles == {h \in Handles : hfp[h] = "unused"}
FreshHandle == CHOOSE h \in FreshHandles : \A g \in FreshHandles : h <= g

\* LockFile.close(): unlock and close once, afterwards a no-op
CloseHandle(h) ==
  IF hfp[h] = "open"
  THEN /\ hfp' = [hfp EXCEPT ![h] = "closed"]
       /\ flock' = [flock EXCEPT ![hpath[h]] = None]
  ELSE UNCHANGED <<hfp, flock>>

\* ---------------------------------------------------------------- Init
Init ==
  /\ objState = [o \in Objs |-> "absent"]
  /\ lock = [o \in Objs |-> None]
  /\ hfp = [h \in Handles |-> "unused"]
  /\ hpath = [h \in Handles |-> "p1"]
  /\ content = [p \in Paths |-> <<>>]
  /\ flock = [p \in Paths |-> None]
  /\ scope = [o \in Objs |-> "none"]
  /\ yielded = [o \in Objs |-> NoYield]
  /\ ret = NoCall
  /\ logLevel = [n \in LoggerNames |-> "NOTSET"]
  /\ logHandlers = [n \in LoggerNames |-> <<>>]
  /\ logCall = [name |-> "a", exists |-> FALSE, writable |-> FALSE,
                rotate |-> 0, result |-> "none"]

\* ---------------------------------------------------------------- FileLock
\* FileLock.__init__: self.lock = None
FileLock_init(o) ==
  /\ objState[o] = "absent"
  /\ objState' = [objState EXCEPT ![o] = "alive"]
  /\ lock' = [lock EXCEPT ![o] = None]
  /\ UNCHANGED <<hfp, hpath, content, flock, scope, yielded, ret, logVars>>

\* a bug: the except branch binds the lock of whoever holds the path
OnLockError_binds_holder(o, p) == flock[p]

\* what self.lock is after the except LockError branch: the branch does not assign it
OnLockError(o, p) == lock[o]

\* a bug: a FileLock that has a LockFile already reopens it
NewLockFile_reuses(o) == IF lock[o] # None /\ hfp[lock[o]] = "closed" THEN lock[o] ELSE FreshHandle

\* LockFile(lock_file, ...) constructs a new LockFile
NewLockFile(o) == FreshHandle

\* a bug: the payload is written as soon as the file is open, before the
\* lock is known to be free
AcquireBody_writes_first(o, p, io) ==
  LET h == NewLockFile(o)
  IN
  /\ (io # "open_fail" /\ flock[p] = None) => FreshHandles # {}
  /\ IF io = "open_fail"
     THEN /\ ret' = [obj |-> o, op |-> "acquire", kind |-> "IOError"]
          /\ UNCHANGED <<lock, hfp, hpath, content, flock>>
     ELSE IF flock[p] # None
     THEN /\ lock' = [lock EXCEPT ![o] = OnLockError(o, p)]
          /\ ret' = [obj |-> o, op |-> "acquire", kind |-> "None"]
          /\ content' = [content EXCEPT ![p] = ContentTemplate(ProcOf(o))]
          /\ UNCHANGED <<hfp, hpath, flock>>
     ELSE /\ hfp' = [hfp EXCEPT ![h] = "open"]
          /\ hpath' = [hpath EXCEPT ![h] = p]
          /\ flock' = [flock EXCEPT ![p] = h]
          /\ content' = [content EXCEPT ![p] = ContentTemplate(ProcOf(o))]
          /\ lock' = [lock EXCEPT ![o] = h]
          /\ ret' = [obj |-> o, op |-> "acquire",
                      kind |-> IF io = "ok" THEN "handle" ELSE "IOError"]

\* body of acquire_lock.  io says which file system call fails, if any.
\*   open_fail      LockFile() raises an error that is not LockError (the path
\*                  cannot be opened): nothing is locked, self.lock is not bound
\*   (lock taken)   LockFile raises LockError, caught, return None
\*   readback_fail  self.lock is bound, then open(lock_file) on line 62 raises
\*   ok             return self.lock
AcquireBody(o, p, io) ==
  LET h == NewLockFile(o)
  IN
  /\ (io # "open_fail" /\ flock[p] = None) => FreshHandles # {}
  /\ IF io = "open_fail"
     THEN /\ ret' = [obj |-> o, op |-> "acquire", kind |-> "IOError"]
          /\ UNCHANGED <<lock, hfp, hpath, content, flock>>
     ELSE IF flock[p] # None
     THEN /\ lock' = [lock EXCEPT ![o] = OnLockError(o, p)]
          /\ ret' = [obj |-> o, op |-> "acquire", kind |-> "None"]
          /\ UNCHANGED <<hfp, hpath, content, flock>>
     ELSE /\ hfp' = [hfp EXCEPT ![h] = "open"]
          /\ hpath' = [hpath EXCEPT ![h] = p]
          /\ flock' = [flock EXCEPT ![p] = h]
          /\ content' = [content EXCEPT ![p] = ContentTemplate(ProcOf(o))]
          /\ lock' = [lock EXCEPT ![o] = h]
          /\ ret' = [obj |-> o, op |-> "acquire",
                      kind |-> IF io = "ok" THEN "handle" ELSE "IOError"]

\* FileLock.acquire_lock called on an object the caller owns
acquire_lock(o, p, io) ==
  /\ objState[o] = "alive"
  /\ scope[o] = "none"
  /\ AcquireBody(o, p, io)
  /\ UNCHANGED <<objState, scope, yielded, logVars>>

\* a bug: the LockFile is forgotten instead of closed, so its file stays
\* open and locked
ReleaseBody_forgets(o) ==
  IF lock[o] # None
  THEN hfp' = [hfp EXCEPT ![lock[o]] = "closed"] /\ UNCHANGED flock
  ELSE UNCHANGED <<hfp, flock>>

\* if self.lock: self.lock.close()
ReleaseBody(o) ==
  IF lock[o] # None THEN CloseHandle(lock[o]) ELSE UNCHANGED <<hfp, flock>>

\* the finalizer has run and the object's memory is gone
Finalized(o) ==
  /\ ReleaseBody(o)
  /\ objState' = [objState EXCEPT ![o] = "finalized"]
  /\ lock' = [lock EXCEPT ![o] = None]
  /\ yielded' = [yielded EXCEPT ![o] = NoYield]

\* a bug: release unlocks the path of its LockFile whether or not that
\* LockFile is still the one holding it
release_lock_unlocks_path(o) ==
  /\ objState[o] = "alive"
  /\ scope[o] = "none"
  /\ IF lock[o] # None
     THEN /\ hfp' = [hfp EXCEPT ![lock[o]] = "closed"]
          /\ flock' = [flock EXCEPT ![hpath[lock[o]]] = None]
     ELSE UNCHANGED <<hfp, flock>>
  /\ ret' = [obj |-> o, op |-> "release", kind |-> "ok"]
  /\ UNCHANGED <<objState, lock, hpath, content, scope, yielded, logVars>>

\* FileLock.release_lock called on an object the caller owns
release_lock(o) ==
  /\ objState[o] = "alive"
  /\ scope[o] = "none"
  /\ ReleaseBody(o)
  /\ ret' = [obj |-> o, op |-> "release", kind |-> "ok"]
  /\ UNCHANGED <<objState, lock, hpath, content, scope, yielded, logVars>>

\* the last reference to an object the caller owns goes away; the finalizer
\* runs at once (prompt) or is left to the runtime
Drop(o, prompt) ==
  /\ objState[o] = "alive"
  /\ scope[o] = "none"
  /\ IF prompt
     THEN Finalized(o)
     ELSE /\ objState' = [objState EXCEPT ![o] = "dropped"]
          /\ UNCHANGED <<hfp, flock, lock, yielded>>
  /\ UNCHANGED <<hpath, content, scope, ret, logVars>>

\* FileLock.__del__ run by the runtime on an unreferenced object
FileLock_del(o) ==
  /\ objState[o] = "dropped"
  /\ Finalized(o)
  /\ UNCHANGED <<hpath, content, scope, ret, logVars>>

\* an open LockFile no FileLock refers to any more (self.lock was rebound to
\* a LockFile on another path) loses its file when the runtime reclaims it
Referenced(h) == \E o \in Objs : objState[o] \in {"alive", "dropped"} /\ lock[o] = h
CollectHandle(h) ==
  /\ hfp[h] = "open"
  /\ ~Referenced(h)
  /\ CloseHandle(h)
  /\ UNCHANGED <<objState, lock, hpath, content, scope, yielded, ret, logVars>>

\* ---------------------------------------------------------------- file_lock
\* a bug: yield fl, the FileLock itself, which is never None
YieldOf_object(l) == [kind |-> "FileLock", h |-> l]

\* yield fl.lock
YieldOf(l) == IF l = None THEN [kind |-> "None", h |-> None] ELSE [kind |-> "LockFile", h |-> l]

\* fl = FileLock(); fl.acquire_lock(...); yield fl.lock
\* when acquire_lock raises, the generator ends before the yield and the
\* body is not entered; the object is left to the finalizer
file_lock_enter(o, p, io) ==
  /\ objState[o] = "absent"
  /\ AcquireBody(o, p, io)
  /\ IF ret'.kind = "IOError"
     THEN /\ objState' = [objState EXCEPT ![o] = "dropped"]
          /\ UNCHANGED <<scope, yielded>>
     ELSE /\ objState' = [objState EXCEPT ![o] = "alive"]
          /\ scope' = [scope EXCEPT ![o] = "body"]
          /\ yielded' = [yielded EXCEPT ![o] = YieldOf(lock'[o])]
  /\ UNCHANGED logVars

\* control leaves the with block.  normal and early exits resume the
\* generator, which runs del fl; an error is raised at the yield and unwinds
\* the generator without running del fl.  Either way the object is only
\* unreferenced: the release itself is FileLock.__del__.
file_lock_exit(o, how, prompt) ==
  /\ objState[o] = "alive"
  /\ scope[o] = "body"
  /\ how \in ExitPaths
  /\ scope' = [scope EXCEPT ![o] = "exited"]
  /\ IF prompt
     THEN Finalized(o)
     ELSE /\ objState' = [objState EXCEPT ![o] = "dropped"]
          /\ UNCHANGED <<hfp, flock, lock, yielded>>
  /\ UNCHANGED <<hpath, content, ret, logVars>>

\* ---------------------------------------------------------------- get_logger
\* what get_logger ends with.  rotate = 0 stands for log_rotate_size None (or
\* 0).  With a rotate size the handler is bound to log_handler, and the next
\* statement reads file_handler, which was never bound.
GetLoggerResult(exists, writable, rotate) ==
  IF ~exists THEN "None"
  ELSE IF ~writable THEN "None"
  ELSE IF rotate # 0 THEN "UnboundLocalError"
  ELSE "logger"

FileHandler == [kind |-> "FileHandler", level |-> "DEBUG", formatted |-> TRUE]

\* get_logger(name, log_file_name, log_rotate_size): exists and writable are
\* what os.path.exists and os.access answer for log_file_name
get_logger(name, exists, writable, rotate) ==
  LET res == GetLoggerResult(exists, writable, rotate)
  IN
  /\ res = "logger" => Len(logHandlers[name]) < MaxLogHandlers
  /\ logLevel' = IF exists /\ writable THEN [logLevel EXCEPT ![name] = "DEBUG"] ELSE logLevel
  /\ logHandlers' = IF res = "logger"
                    THEN [logHandlers EXCEPT ![name] = Append(@, FileHandler)]
                    ELSE logHandlers
  /\ logCall' = [name |-> name, exists |-> exists, writable |-> writable,
                 rotate |-> rotate, result |-> res]
  /\ UNCHANGED lockVars

LogNext ==
  \E name \in LoggerNames, exists \in BOOLEAN, writable \in BOOLEAN, rotate \in 0..MaxRotateSize :
    get_logger(name, exists, writable, rotate)

LogSpec == Init /\ [][LogNext]_vars

Next ==
  \/ \E o \in Objs : FileLock_init(o)
  \/ \E o \in Objs, p \in Paths, io \in IOOutcomes : acquire_lock(o, p, io)
  \/ \E o \in Objs : release_lock(o)
  \/ \E o \in Objs, prompt \in BOOLEAN : Drop(o, prompt)
  \/ \E o \in Objs : FileLock_del(o)
  \/ \E h \in Handles : CollectHandle(h)
  \/ \E o \in Objs, p \in Paths, io \in IOOutcomes : file_lock_enter(o, p, io)
  \/ \E o \in Objs, how \in ExitPaths, prompt \in BOOLEAN : file_lock_exit(o, how, prompt)

Spec == Init /\ [][Next]_vars

\* ================================================================ claims

\* C1: when control leaves the scope of file_lock(path), on any exit path,
\* the OS lock the scope acquired is released.
C1_ScopeExitReleases ==
  \A o \in Objs : scope[o] = "exited" => ~Live(lock[o])

\* C2: at most one FileLock object is Held for a given path, in every
\* reachable state.
C2_MutualExclusion ==
  \A p \in Paths : Cardinality({o \in Objs : HeldOn(o, p)}) <= 1

C2_Witness ==
  \E o \in Objs, b \in Objs, p \in Paths :
    /\ o # b
    /\ HeldOn(o, p)
    /\ ret = [obj |-> b, op |-> "acquire", kind |-> "None"]
    /\ \E q \in Paths : q # p /\ flock[q] # None

\* C3: an acquire on a path whose OS lock is taken (the file system calls
\* themselves succeeding) returns None, leaves self.lock of the caller as it
\* was, and changes neither the lock file's content nor the holder.
C3_ContentionChangesNothing ==
  [][\A o \in Objs, p \in Paths, io \in IOOutcomes :
       (/\ flock[p] # None
        /\ io # "open_fail"
        /\ acquire_lock(o, p, io) \/ file_lock_enter(o, p, io))
       => /\ ret'.kind = "None"
          /\ lock'[o] = lock[o]
          /\ content' = content
          /\ flock' = flock
          /\ hfp' = hfp]_vars

C3_Witness ==
  \E o \in Objs, b \in Objs, p \in Paths :
    /\ o # b
    /\ HeldOn(o, p)
    /\ content[p] = ContentTemplate(ProcOf(o))
    /\ objState[b] = "alive" /\ scope[b] = "none" /\ lock[b] = None
    /\ ret = [obj |-> b, op |-> "acquire", kind |-> "None"]

\* C4: an acquire_lock on a path nobody holds, with no file system failure,
\* returns the handle, makes the object Held on the path, and leaves the file
\* containing pid@hostname of the acquiring process.
C4_AcquireFreePath ==
  [][\A o \in Objs, p \in Paths :
       (flock[p] = None /\ acquire_lock(o, p, "ok"))
       => /\ ret' = [obj |-> o, op |-> "acquire", kind |-> "handle"]
          /\ HeldOn(o, p)'
          /\ flock'[p] = lock'[o]
          /\ content'[p] = <<Pid(ProcOf(o)), "@", Hostname(ProcOf(o))>>]_vars

C4_Witness ==
  \E o \in Objs, p \in Paths, g \in Handles :
    /\ HeldOn(o, p)
    /\ ret = [obj |-> o, op |-> "acquire", kind |-> "handle"]
    /\ content[p] = <<Pid(ProcOf(o)), "@", Hostname(ProcOf(o))>>
    /\ g # lock[o] /\ hfp[g] = "closed" /\ hpath[g] = p

\* C5: release_lock on an object that holds nothing (never acquired, acquire
\* failed, or already released) raises nothing and changes no lock state;
\* release_lock and __del__ never free a path another LockFile holds.
C5_ReleaseIdempotent ==
  [][\A o \in Objs :
       /\ (~Live(lock[o]) /\ release_lock(o))
            => /\ ret'.kind = "ok"
               /\ UNCHANGED <<hfp, flock, content, lock>>
       /\ (release_lock(o) \/ FileLock_del(o))
            => \A p \in Paths : flock[p] # lock[o] => flock'[p] = flock[p]]_vars

C5_Witness ==
  \E o \in Objs, b \in Objs :
    /\ o # b
    /\ ret = [obj |-> o, op |-> "release", kind |-> "ok"]
    /\ Released(o)
    /\ HeldOn(b, hpath[lock[o]])

\* C6: release_lock by the holder of a path frees the path, and the next
\* acquire_lock on it, by any object of any process, succeeds and rewrites
\* the content with its own pid@hostname.
C6_ReleaseThenAcquire ==
  [][\A o \in Objs, p \in Paths :
       /\ (HeldOn(o, p) /\ release_lock(o)) => flock'[p] = None /\ ~Held(o)'
       /\ \A b \in Objs :
            (/\ flock[p] = None
             /\ Released(o) /\ hpath[lock[o]] = p
             /\ acquire_lock(b, p, "ok"))
            => /\ HeldOn(b, p)'
               /\ ret'.kind = "handle"
               /\ content'[p] = ContentTemplate(ProcOf(b))]_vars

C6_Witness ==
  \E a \in Objs, b \in Objs, p \in Paths :
    /\ a # b /\ ProcOf(a) # ProcOf(b)
    /\ Released(a) /\ hpath[lock[a]] = p
    /\ HeldOn(b, p)
    /\ content[p] = ContentTemplate(ProcOf(b))
    /\ ret = [obj |-> b, op |-> "acquire", kind |-> "handle"]

\* C7 as claimed: a FileLock object that is Released is never Held again.
C7_ReleasedObjectTerminal ==
  [][\A o \in Objs : Released(o) => ~Held(o)']_vars

\* C7 amended: Released is terminal for the LockFile handle, not for the
\* FileLock object: a closed handle is never open again, and acquire_lock on
\* a Released object whose path is free makes the object Held again through
\* a new handle.
C7_ReleasedHandleTerminal ==
  [][/\ \A h \in Handles : hfp[h] = "closed" => hfp'[h] = "closed"
     /\ \A o \in Objs, p \in Paths :
          (Released(o) /\ flock[p] = None /\ acquire_lock(o, p, "ok"))
          => HeldOn(o, p)' /\ lock'[o] # lock[o] /\ hfp'[lock[o]] = "closed"]_vars

C7_Witness ==
  \E o \in Objs :
    /\ HeldOn(o, "p1")
    /\ \E g \in Handles : g # lock[o] /\ hfp[g] = "closed" /\ hpath[g] = "p1"
    /\ \A b \in Objs \ {o} : objState[b] = "absent"
    /\ ret = [obj |-> o, op |-> "acquire", kind |-> "handle"]

\* C8: acquire_lock raises an I/O error exactly when a file system call
\* fails for a reason other than contention, and an attempt that raised does
\* not leave the object holding the path.
C8_IOFailureLeavesNothingHeld ==
  [][\A o \in Objs, p \in Paths, io \in IOOutcomes :
       acquire_lock(o, p, io)
       => LET failed == io = "open_fail" \/ (io # "ok" /\ flock[p] = None)
          IN /\ failed <=> ret'.kind = "IOError"
             /\ (failed /\ ~HeldOn(o, p)) => ~HeldOn(o, p)']_vars

\* C9: file_lock enters the body both on success and on contention; it
\* yields None exactly on contention and the live, held handle exactly on
\* success; contention raises nothing.
C9_YieldedValue ==
  [][\A o \in Objs, p \in Paths, io \in IOOutcomes :
       file_lock_enter(o, p, io)
       => LET contention == io # "open_fail" /\ flock[p] # None
              success == io = "ok" /\ flock[p] = None
          IN /\ (contention \/ success) <=> scope'[o] = "body"
             /\ contention <=> (scope'[o] = "body" /\ yielded'[o].kind = "None")
             /\ success <=> (scope'[o] = "body" /\ yielded'[o].kind = "LockFile")
             /\ success => /\ yielded'[o].h = lock'[o]
                           /\ hfp'[lock'[o]] = "open"
                           /\ flock'[p] = lock'[o]
             /\ contention => ret'.kind = "None"]_vars

C9_Witness ==
  \E o \in Objs, b \in Objs :
    /\ scope[o] = "body" /\ yielded[o].kind = "LockFile" /\ Live(yielded[o].h)
    /\ scope[b] = "body" /\ yielded[b] = [kind |-> "None", h |-> None]

\* C10: for a log file that exists and is writable get_logger returns a
\* DEBUG logger with a formatted handler, with or without a rotate size; it
\* returns None only for a missing or unwritable file and never raises.
C10_LoggerForWritableFile ==
  logCall.result # "none"
  => /\ logCall.result \in {"logger", "None"}
     /\ logCall.result = "None" <=> ~(logCall.exists /\ logCall.writable)
     /\ logCall.result = "logger"
          => /\ logLevel[logCall.name] = "DEBUG"
             /\ Len(logHandlers[logCall.name]) > 0
             /\ \A i \in 1..Len(logHandlers[logCall.name]) :
                  logHandlers[logCall.name][i].formatted

====
